---- MODULE Spec2Model ----
(***************************************************************************)
(* Order fulfilment core of merjane-refacto-js: the three per-type product *)
(* strategies, the strategy factory, OrderProcessingService and the        *)
(* POST /orders/:orderId/processOrder handler that feeds it.               *)
(*                                                                         *)
(* Time is kept in milliseconds since the epoch, as Date.getTime() does.   *)
(* A null date column is the value Null; a relational comparison of a Date *)
(* with null converts null to the number 0 (ToNumber).                     *)
(***************************************************************************)
EXTENDS Integers, Sequences, FiniteSets, TLC

\* ---------------------------------------------------------------- bounds
MaxAvailable == 2
MaxLeadTime == 1
MaxDay == 3
MaxOrderLen == 2
NumProducts == 2
NumCalls == 2

\* ------------------------------------------------------ program constants
millisecondsPerDay == 1000 * 60 * 60 * 24

Null == -1

ProductIds == 1..NumProducts
Calls == 1..NumCalls

ProductTypes == {"NORMAL", "SEASONAL", "EXPIRABLE", "FLASHSALE"}

Dates == {d * millisecondsPerDay : d \in 1..MaxDay}

NullableDates == Dates \cup {Null}

ProductName(i) == IF i = 1 THEN "P1" ELSE IF i = 2 THEN "P2" ELSE "P3"

\* The rows the products table can hold for id i. Date columns are filled
\* according to the type; a column the type needs may still be null, the
\* schema does not forbid it.
Row(i, t, a, l, s, e, x) ==
    [id |-> i, name |-> ProductName(i), type |-> t, available |-> a,
     leadTime |-> l, seasonStartDate |-> s, seasonEndDate |-> e,
     expiryDate |-> x]

Product(i) ==
    { Row(i, t, a, l, Null, Null, Null) :
        t \in {"NORMAL", "FLASHSALE"}, a \in 0..MaxAvailable, l \in 0..MaxLeadTime }
    \cup
    { Row(i, "SEASONAL", a, l, s, e, Null) :
        a \in 0..MaxAvailable, l \in 0..MaxLeadTime,
        s \in NullableDates, e \in NullableDates }
    \cup
    { Row(i, "EXPIRABLE", a, l, Null, Null, x) :
        a \in 0..MaxAvailable, l \in 0..MaxLeadTime, x \in NullableDates }

\* The products after the first are plain rows: NORMAL, one unit in stock.
CatalogueProduct(i) == Row(i, "NORMAL", 1, MaxLeadTime, Null, Null, Null)

\* ------------------------------------------------------------ JS helpers
\* ToNumber of a Date-or-null operand of < and >.
ToNumber(d) == IF d = Null THEN 0 ELSE d

\* ------------------------------------------------- ProductProcessingResult
NoProduct ==
    [id |-> 0, name |-> "", type |-> "", available |-> 0, leadTime |-> 0,
     seasonStartDate |-> Null, seasonEndDate |-> Null, expiryDate |-> Null]

NoAction == [kind |-> "none", leadTime |-> 0, name |-> "", expiryDate |-> Null]

sendDelayNotification(leadTime, productName) ==
    [kind |-> "delay", leadTime |-> leadTime, name |-> productName,
     expiryDate |-> Null]

sendOutOfStockNotification(productName) ==
    [kind |-> "outOfStock", leadTime |-> 0, name |-> productName,
     expiryDate |-> Null]

sendExpirationNotification(productName, expiryDate) ==
    [kind |-> "expiration", leadTime |-> 0, name |-> productName,
     expiryDate |-> expiryDate]

ProductProcessingResult(shouldUpdateStock, updatedProduct, notificationAction) ==
    [shouldUpdateStock |-> shouldUpdateStock,
     updatedProduct |-> updatedProduct,
     notificationAction |-> notificationAction]

NoResult == ProductProcessingResult(FALSE, NoProduct, NoAction)

\* -------------------------------------------------------------- strategies
\* Mutant: the lead time is not looked at, an out-of-stock product always
\* gets a delay notification.
NormalProductStrategyAlwaysDelays(product, currentDate) ==
    IF product.available > 0
    THEN ProductProcessingResult(TRUE,
             [product EXCEPT !.available = product.available - 1], NoAction)
    ELSE ProductProcessingResult(TRUE,
             [product EXCEPT !.leadTime = product.leadTime],
             sendDelayNotification(product.leadTime, product.name))

\* Mutant: the NORMAL strategy decrements without looking at the stock.
NormalProductStrategyNoStockCheck(product, currentDate) ==
    ProductProcessingResult(TRUE,
        [product EXCEPT !.available = product.available - 1], NoAction)

\* Mutant: a delayed NORMAL product has its lead time used up by the delay
\* notification.
NormalProductStrategyClearsLeadTime(product, currentDate) ==
    IF product.available > 0
    THEN ProductProcessingResult(TRUE,
             [product EXCEPT !.available = product.available - 1], NoAction)
    ELSE IF product.leadTime > 0
    THEN ProductProcessingResult(TRUE,
             [product EXCEPT !.leadTime = 0],
             sendDelayNotification(product.leadTime, product.name))
    ELSE ProductProcessingResult(FALSE, NoProduct, NoAction)

\* Mutant: the NORMAL strategy also announces a delay when it takes a unit
\* out of the stock.
NormalProductStrategyNotifiesOnDecrement(product, currentDate) ==
    IF product.available > 0
    THEN ProductProcessingResult(TRUE,
             [product EXCEPT !.available = product.available - 1],
             sendDelayNotification(product.leadTime, product.name))
    ELSE IF product.leadTime > 0
    THEN ProductProcessingResult(TRUE,
             [product EXCEPT !.leadTime = product.leadTime],
             sendDelayNotification(product.leadTime, product.name))
    ELSE ProductProcessingResult(FALSE, NoProduct, NoAction)

NormalProductStrategy(product, currentDate) ==
    IF product.available > 0
    THEN ProductProcessingResult(TRUE,
             [product EXCEPT !.available = product.available - 1], NoAction)
    ELSE IF product.leadTime > 0
    THEN ProductProcessingResult(TRUE,
             [product EXCEPT !.leadTime = product.leadTime],
             sendDelayNotification(product.leadTime, product.name))
    ELSE ProductProcessingResult(FALSE, NoProduct, NoAction)

\* The branches of SeasonalProductStrategy.processOrder, given the outcome
\* of its three date tests.
SeasonalDecision(product, inSeason, restockAfterSeason, beforeSeason) ==
    IF inSeason /\ product.available > 0
    THEN ProductProcessingResult(TRUE,
             [product EXCEPT !.available = product.available - 1], NoAction)
    ELSE IF product.available = 0
    THEN IF restockAfterSeason
         THEN ProductProcessingResult(TRUE,
                  [product EXCEPT !.available = 0],
                  sendOutOfStockNotification(product.name))
         ELSE ProductProcessingResult(TRUE,
                  [product EXCEPT !.leadTime = product.leadTime],
                  sendDelayNotification(product.leadTime, product.name))
    ELSE IF beforeSeason
    THEN ProductProcessingResult(FALSE, NoProduct,
             sendOutOfStockNotification(product.name))
    ELSE ProductProcessingResult(FALSE, NoProduct, NoAction)

\* Mutant: the season window includes its two boundary instants.
SeasonalProductStrategyInclusiveWindow(product, currentDate) ==
    LET restockDate == currentDate + (product.leadTime * millisecondsPerDay)
    IN  SeasonalDecision(product,
            /\ currentDate >= ToNumber(product.seasonStartDate)
            /\ currentDate <= ToNumber(product.seasonEndDate),
            restockDate > ToNumber(product.seasonEndDate),
            ToNumber(product.seasonStartDate) > currentDate)

\* Mutant: a restock that lands exactly on the season end counts as too late.
SeasonalProductStrategyRestockAtEndTooLate(product, currentDate) ==
    LET restockDate == currentDate + (product.leadTime * millisecondsPerDay)
    IN  SeasonalDecision(product,
            /\ currentDate > ToNumber(product.seasonStartDate)
            /\ currentDate < ToNumber(product.seasonEndDate),
            restockDate >= ToNumber(product.seasonEndDate),
            ToNumber(product.seasonStartDate) > currentDate)

SeasonalProductStrategy(product, currentDate) ==
    LET restockDate == currentDate + (product.leadTime * millisecondsPerDay)
    IN  IF /\ currentDate > ToNumber(product.seasonStartDate)
           /\ currentDate < ToNumber(product.seasonEndDate)
           /\ product.available > 0
        THEN ProductProcessingResult(TRUE,
                 [product EXCEPT !.available = product.available - 1], NoAction)
        ELSE IF product.available = 0
        THEN IF restockDate > ToNumber(product.seasonEndDate)
             THEN ProductProcessingResult(TRUE,
                      [product EXCEPT !.available = 0],
                      sendOutOfStockNotification(product.name))
             ELSE ProductProcessingResult(TRUE,
                      [product EXCEPT !.leadTime = product.leadTime],
                      sendDelayNotification(product.leadTime, product.name))
        ELSE IF ToNumber(product.seasonStartDate) > currentDate
        THEN ProductProcessingResult(FALSE, NoProduct,
                 sendOutOfStockNotification(product.name))
        ELSE ProductProcessingResult(FALSE, NoProduct, NoAction)

\* Mutant: a product whose expiry date is the current instant still counts
\* as unexpired.
ExpirableProductStrategyExpiresLate(product, currentDate) ==
    IF product.available > 0 /\ ToNumber(product.expiryDate) >= currentDate
    THEN ProductProcessingResult(TRUE,
             [product EXCEPT !.available = product.available - 1], NoAction)
    ELSE ProductProcessingResult(TRUE,
             [product EXCEPT !.available = 0],
             sendExpirationNotification(product.name, product.expiryDate))

ExpirableProductStrategy(product, currentDate) ==
    IF product.available > 0 /\ ToNumber(product.expiryDate) > currentDate
    THEN ProductProcessingResult(TRUE,
             [product EXCEPT !.available = product.available - 1], NoAction)
    ELSE ProductProcessingResult(TRUE,
             [product EXCEPT !.available = 0],
             sendExpirationNotification(product.name, product.expiryDate))

\* Mutant: an unrecognized tag falls back to the NORMAL strategy.
createStrategyDefaults(productType) ==
    CASE productType = "SEASONAL" -> "SeasonalProductStrategy"
      [] productType = "EXPIRABLE" -> "ExpirableProductStrategy"
      [] OTHER -> "NormalProductStrategy"

\* ProductStrategyFactory.createStrategy: the strategy bound to a type tag,
\* "throw" for a tag outside the three cases.
createStrategy(productType) ==
    CASE productType = "NORMAL" -> "NormalProductStrategy"
      [] productType = "SEASONAL" -> "SeasonalProductStrategy"
      [] productType = "EXPIRABLE" -> "ExpirableProductStrategy"
      [] OTHER -> "throw"

\* strategy.processOrder(product), evaluated at the instant currentDate.
StrategyProcessOrder(strategy, product, currentDate) ==
    CASE strategy = "NormalProductStrategy" ->
             NormalProductStrategy(product, currentDate)
      [] strategy = "SeasonalProductStrategy" ->
             SeasonalProductStrategy(product, currentDate)
      [] strategy = "ExpirableProductStrategy" ->
             ExpirableProductStrategy(product, currentDate)

\* ------------------------------------------------------------------ state
VARIABLES
    db,             \* products table: id -> row
    now,            \* the clock new Date() reads
    pc,             \* per request: idle, strategy, update, notify, done, failed
    orderProducts,  \* per request: the Product list handed to processOrder
    idx,            \* per request: position of the for-of loop (1-based)
    result,         \* per request: the ProductProcessingResult of the current product
    pending,        \* per request: the database update issued and not yet settled
    log             \* strategy evaluations, applied updates and notifications sent, in order

vars == <<db, now, pc, orderProducts, idx, result, pending, log>>

NoPending == [where |-> 0, set |-> NoProduct, idx |-> 0]

\* One entry of the log. op is "strategy" (product: the argument, result: what
\* the strategy returned, currentDate: its new Date()), "update" (product: the
\* row written), "notify" (action: the notification sent), or the error that
\* leaves processProductOrder: "unknownType", "updateRejected", "notifyThrew".
Event(c, i, op, currentDate, product, r, action) ==
    [call |-> c, idx |-> i, op |-> op, currentDate |-> currentDate,
     product |-> product, result |-> r, action |-> action]

\* Every sequence of product ids an order can reference (repeats allowed).
Orders == UNION { [1..n -> ProductIds] : n \in 0..MaxOrderLen }

TypeOK ==
    /\ \A i \in ProductIds : db[i] \in Product(i)
    /\ now \in Dates
    /\ pc \in [Calls -> {"idle", "strategy", "update", "notify", "done", "failed"}]
    /\ idx \in [Calls -> 1..(MaxOrderLen + 2)]
    /\ \A c \in Calls : Len(orderProducts[c]) <= MaxOrderLen

InitCalls ==
    /\ pc = [c \in Calls |-> "idle"]
    /\ orderProducts = [c \in Calls |-> <<>>]
    /\ idx = [c \in Calls |-> 1]
    /\ result = [c \in Calls |-> NoResult]
    /\ pending = [c \in Calls |-> NoPending]
    /\ log = <<>>

Init ==
    /\ \E first \in Product(1) :
         db = [i \in ProductIds |-> IF i = 1 THEN first ELSE CatalogueProduct(i)]
    /\ now = millisecondsPerDay
    /\ InitCalls

\* ---------------------------------------------------------- control flow
\* for (const product of orderProducts): the position after i.
\* Mutant: the loop skips every other product.
NextIndexSkips(i) == i + 2

NextIndex(i) == i + 1

\* processProductOrder, after the strategy returned: await the update when
\* one is requested.
StepAfterUpdate(r) ==
    IF r.notificationAction # NoAction THEN "notify" ELSE "next"

\* Mutant: the update is issued but not awaited.
StepAfterStrategyNoAwait(r) == StepAfterUpdate(r)

StepAfterStrategy(r) ==
    IF r.shouldUpdateStock /\ r.updatedProduct # NoProduct
    THEN "update"
    ELSE StepAfterUpdate(r)

\* Move request c to `step`; "next" ends processProductOrder for the current
\* product and takes the loop of processOrder to the following one.
Goto(c, step) ==
    IF step = "next"
    THEN /\ pc' = [pc EXCEPT ![c] =
                     IF NextIndex(idx[c]) > Len(orderProducts[c])
                     THEN "done" ELSE "strategy"]
         /\ idx' = [idx EXCEPT ![c] = NextIndex(idx[c])]
    ELSE /\ pc' = [pc EXCEPT ![c] = step]
         /\ UNCHANGED idx

\* Mutant: the error is caught and the loop goes on with the next product.
FailSwallowed(c) ==
    /\ pc' = [pc EXCEPT ![c] =
                 IF NextIndex(idx[c]) > Len(orderProducts[c])
                 THEN "done" ELSE "strategy"]
    /\ idx' = [idx EXCEPT ![c] = NextIndex(idx[c])]

\* A rejection or throw inside processProductOrder: nothing catches it, the
\* await in processOrder rethrows and the handler's request fails.
Fail(c) ==
    /\ pc' = [pc EXCEPT ![c] = "failed"]
    /\ UNCHANGED idx

\* ---------------------------------------------------------------- actions
\* The route handler: load the order's products, hand them to processOrder.
Receive(c) ==
    /\ pc[c] = "idle"
    /\ \E ids \in Orders :
         /\ orderProducts' = [orderProducts EXCEPT ![c] =
                                [k \in 1..Len(ids) |-> db[ids[k]]]]
         /\ pc' = [pc EXCEPT ![c] = IF Len(ids) = 0 THEN "done" ELSE "strategy"]
    /\ UNCHANGED <<db, now, idx, result, pending, log>>

\* processProductOrder up to the database call: pick the strategy, run it,
\* issue the update the result asks for.
Evaluate(c) ==
    /\ pc[c] = "strategy"
    /\ LET product == orderProducts[c][idx[c]]
           strategy == createStrategy(product.type)
       IN  IF strategy = "throw"
           THEN /\ Fail(c)
                /\ log' = Append(log, Event(c, idx[c], "unknownType", Null,
                                            product, NoResult, NoAction))
                /\ UNCHANGED <<result, pending>>
           ELSE LET r == StrategyProcessOrder(strategy, product, now)
                IN  /\ result' = [result EXCEPT ![c] = r]
                    /\ pending' = [pending EXCEPT ![c] =
                                     IF r.shouldUpdateStock /\ r.updatedProduct # NoProduct
                                     THEN [where |-> product.id, set |-> r.updatedProduct,
                                           idx |-> idx[c]]
                                     ELSE NoPending]
                    /\ log' = Append(log, Event(c, idx[c], "strategy", now, product, r,
                                                NoAction))
                    /\ Goto(c, StepAfterStrategy(r))
    /\ UNCHANGED <<db, now, orderProducts>>

\* Mutant: the database applies the update relative to the row it holds,
\* taking off it what the strategy took off its snapshot.
UpdateStockRelative(c) ==
    /\ pending[c] # NoPending
    /\ LET taken == orderProducts[c][pending[c].idx].available
                        - pending[c].set.available
           written(row) == [pending[c].set EXCEPT !.available = row.available - taken]
       IN  /\ db' = [i \in ProductIds |->
                       IF db[i].id = pending[c].where THEN written(db[i]) ELSE db[i]]
           /\ log' = Append(log, Event(c, pending[c].idx, "update", Null,
                                       written(db[pending[c].where]), NoResult,
                                       NoAction))
    /\ pending' = [pending EXCEPT ![c] = NoPending]
    /\ IF pc[c] = "update"
       THEN Goto(c, StepAfterUpdate(result[c]))
       ELSE UNCHANGED <<pc, idx>>
    /\ UNCHANGED <<now, orderProducts, result>>

\* The database applies update(products).set(updatedProduct).where(id = product.id).
UpdateStock(c) ==
    /\ pending[c] # NoPending
    /\ db' = [i \in ProductIds |->
                IF db[i].id = pending[c].where THEN pending[c].set ELSE db[i]]
    /\ log' = Append(log, Event(c, pending[c].idx, "update", Null,
                                pending[c].set, NoResult, NoAction))
    /\ pending' = [pending EXCEPT ![c] = NoPending]
    /\ IF pc[c] = "update"
       THEN Goto(c, StepAfterUpdate(result[c]))
       ELSE UNCHANGED <<pc, idx>>
    /\ UNCHANGED <<now, orderProducts, result>>

\* The database rejects the update.
UpdateFails(c) ==
    /\ pending[c] # NoPending
    /\ pending' = [pending EXCEPT ![c] = NoPending]
    /\ IF pc[c] = "update"
       THEN /\ Fail(c)
            /\ log' = Append(log, Event(c, pending[c].idx, "updateRejected",
                                        Null, pending[c].set, NoResult, NoAction))
       ELSE UNCHANGED <<pc, idx, log>>
    /\ UNCHANGED <<db, now, orderProducts, result>>

\* result.notificationAction() returns.
Notify(c) ==
    /\ pc[c] = "notify"
    /\ log' = Append(log, Event(c, idx[c], "notify", Null, NoProduct,
                                NoResult, result[c].notificationAction))
    /\ Goto(c, "next")
    /\ UNCHANGED <<db, now, orderProducts, result, pending>>

\* result.notificationAction() throws.
NotifyFails(c) ==
    /\ pc[c] = "notify"
    /\ Fail(c)
    /\ log' = Append(log, Event(c, idx[c], "notifyThrew", Null, NoProduct,
                                NoResult, result[c].notificationAction))
    /\ UNCHANGED <<db, now, orderProducts, result, pending>>

\* Time passes.
Tick ==
    /\ now < MaxDay * millisecondsPerDay
    /\ \E c \in Calls : pc[c] = "strategy"
    /\ now' = now + millisecondsPerDay
    /\ UNCHANGED <<db, pc, orderProducts, idx, result, pending, log>>

\* Calls of the legacy ProductService.notifyDelay a run may make.
MaxNotifyDelayCalls == 1

NotifyDelayCalls == Len(SelectSeq(log, LAMBDA e : e.op = "notifyDelay"))

\* ProductService.notifyDelay(leadTime, product), called with the row of
\* product i as the table holds it: the lead time is set on the object, the
\* whole object is written back and the delay is notified.
notifyDelay(leadTime, i) ==
    /\ NotifyDelayCalls < MaxNotifyDelayCalls
    /\ LET product == [db[i] EXCEPT !.leadTime = leadTime]
       IN  /\ db' = [db EXCEPT ![i] = product]
           /\ log' = Append(log, Event(0, 0, "notifyDelay", Null, product, NoResult,
                                       sendDelayNotification(leadTime, product.name)))
    /\ UNCHANGED <<now, pc, orderProducts, idx, result, pending>>

\* One request served on its own.
Next ==
    \/ Receive(1)
    \/ Evaluate(1)
    \/ UpdateStock(1)
    \/ UpdateFails(1)
    \/ Notify(1)
    \/ NotifyFails(1)
    \/ Tick

Spec == Init /\ [][Next]_vars

\* One request served while the legacy ProductService is in use on the same
\* table.
NextWithProductService ==
    \/ Next
    \/ \E i \in ProductIds : \E leadTime \in 0..MaxLeadTime : notifyDelay(leadTime, i)

SpecWithProductService == Init /\ [][NextWithProductService]_vars

\* processProductOrder run again and again on product 1, each run taking the
\* row as the table holds it once the previous run has returned or thrown.
Rerun(c) ==
    /\ pc[c] = "idle"
    /\ c > 1 => pc[c - 1] \in {"done", "failed"}
    /\ orderProducts' = [orderProducts EXCEPT ![c] = <<db[1]>>]
    /\ pc' = [pc EXCEPT ![c] = "strategy"]
    /\ UNCHANGED <<db, now, idx, result, pending, log>>

NextRerun ==
    \/ \E c \in Calls :
          \/ Rerun(c)
          \/ Evaluate(c)
          \/ UpdateStock(c)
          \/ UpdateFails(c)
          \/ Notify(c)
          \/ NotifyFails(c)
    \/ Tick

SpecRerun == Init /\ [][NextRerun]_vars

\* The handler of one of several requests in flight for orders of product 1:
\* it loads the product row, then hands it to processOrder.
Load(c) ==
    /\ pc[c] = "idle"
    /\ orderProducts' = [orderProducts EXCEPT ![c] = <<db[1]>>]
    /\ pc' = [pc EXCEPT ![c] = "strategy"]
    /\ log' = Append(log, Event(c, 0, "load", Null, db[1], NoResult, NoAction))
    /\ UNCHANGED <<db, now, idx, result, pending>>

\* Product 1 is a NORMAL product with any stock and lead time.
InitConcurrent ==
    /\ \E available \in 0..MaxAvailable : \E leadTime \in 0..MaxLeadTime :
         db = [i \in ProductIds |->
                 IF i = 1
                 THEN Row(1, "NORMAL", available, leadTime, Null, Null, Null)
                 ELSE CatalogueProduct(i)]
    /\ now = millisecondsPerDay
    /\ InitCalls

\* The requests are served concurrently: their steps interleave in any order.
NextConcurrent ==
    \E c \in Calls :
        \/ Load(c)
        \/ Evaluate(c)
        \/ UpdateStock(c)
        \/ UpdateFails(c)
        \/ Notify(c)
        \/ NotifyFails(c)

SpecConcurrent == InitConcurrent /\ [][NextConcurrent]_vars

\* ------------------------------------------------------------ log views
LogIndexes == 1..Len(log)

Throws == {"unknownType", "updateRejected", "notifyThrew"}

\* The log entries of request c for the product at position i with this op.
Events(c, i, op) ==
    SelectSeq(log, LAMBDA e : e.call = c /\ e.idx = i /\ e.op = op)

\* The notifications sent for the product at position i of request c.
Notifications(c, i) ==
    [k \in 1..Len(Events(c, i, "notify")) |-> Events(c, i, "notify")[k].action]

Positions == 1..(MaxOrderLen + 1)

\* Request c has evaluated the product at position i.
Evaluated(c, i) == Len(Events(c, i, "strategy")) > 0

\* The result the strategy returned for position i of request c.
ResultOf(c, i) == Events(c, i, "strategy")[1].result

\* processProductOrder has just returned for position i of request c.
JustCompleted(c, i) ==
    /\ i \in 1..Len(orderProducts[c])
    /\ idx[c] = i + 1
    /\ pc[c] \in {"strategy", "done"}

\* ------------------------------------------------------------------ C1
\* C1: a notification of a product whose result requested a stock update is
\* sent only after that update was applied to the table: its log entry is
\* preceded by the entry of the applied update of the same product, no
\* update of the request is in flight when it is sent, and none is sent
\* when the update was rejected.
C1_NotifyAfterUpdate ==
    \A k \in LogIndexes :
        LET e == log[k] IN
        (e.op = "notify" /\ ResultOf(e.call, e.idx).shouldUpdateStock) =>
            /\ \E j \in 1..(k - 1) :
                  /\ log[j].op = "update"
                  /\ log[j].call = e.call
                  /\ log[j].idx = e.idx
                  /\ log[j].product = ResultOf(e.call, e.idx).updatedProduct
            /\ Len(Events(e.call, e.idx, "updateRejected")) = 0
            /\ (k = Len(log) => pending[e.call] = NoPending)

\* Witness: a notification was sent for a product whose stock was written.
C1_Witness ==
    \E k \in LogIndexes :
        /\ log[k].op = "notify"
        /\ ResultOf(log[k].call, log[k].idx).shouldUpdateStock
        /\ Len(Events(log[k].call, log[k].idx, "update")) = 1

\* ------------------------------------------------------------------ C2
\* C2: processOrder handles the products one at a time in list order. The
\* entries of a request never go back to an earlier position; when the
\* strategy of position i+1 is evaluated, position i was evaluated and the
\* update and the notification its result asked for are already in the log;
\* each position is evaluated at most once, on the list's product; and a
\* request that ends without an error evaluated every position once and
\* applied each requested update and notification once.
C2_Sequential ==
    \A c \in Calls :
        /\ \A k \in LogIndexes :
              log[k].call = c =>
                  \A j \in 1..(k - 1) : log[j].call = c => log[j].idx <= log[k].idx
        /\ \A k \in LogIndexes :
              (log[k].call = c /\ log[k].op = "strategy" /\ log[k].idx > 1) =>
                  LET i == log[k].idx - 1 IN
                  /\ Evaluated(c, i)
                  /\ ResultOf(c, i).shouldUpdateStock =>
                        \E j \in 1..(k - 1) :
                            log[j].call = c /\ log[j].idx = i /\ log[j].op = "update"
                  /\ ResultOf(c, i).notificationAction # NoAction =>
                        \E j \in 1..(k - 1) :
                            log[j].call = c /\ log[j].idx = i /\ log[j].op = "notify"
        /\ \A i \in Positions :
              /\ Len(Events(c, i, "strategy")) <= 1
              /\ Evaluated(c, i) =>
                    /\ i <= Len(orderProducts[c])
                    /\ Events(c, i, "strategy")[1].product = orderProducts[c][i]
        /\ pc[c] = "done" =>
              \A i \in 1..Len(orderProducts[c]) :
                  /\ Len(Events(c, i, "strategy")) = 1
                  /\ Len(Events(c, i, "update")) =
                        (IF ResultOf(c, i).shouldUpdateStock THEN 1 ELSE 0)
                  /\ Len(Events(c, i, "notify")) =
                        (IF ResultOf(c, i).notificationAction # NoAction THEN 1 ELSE 0)

\* Witness: a two-product order ended without an error, the first product
\* with an update and a notification.
C2_Witness ==
    /\ pc[1] = "done"
    /\ Len(orderProducts[1]) = 2
    /\ Len(Events(1, 1, "update")) = 1
    /\ Len(Events(1, 1, "notify")) = 1
    /\ Evaluated(1, 2)

\* ------------------------------------------------------------------ C3
\* C3 (as claimed): when the same in-stock NORMAL product, loaded with
\* available = n >= 2, occurs twice in the list, the second evaluation works
\* on the stock the first one persisted, so the request leaves the persisted
\* available at n - 2.
C3_ReadsOwnWrites ==
    \A c \in Calls :
        (/\ pc[c] = "done"
         /\ Len(orderProducts[c]) = 2
         /\ orderProducts[c][1].id = orderProducts[c][2].id
         /\ orderProducts[c][1].type = "NORMAL"
         /\ orderProducts[c][1].available >= 2) =>
            /\ Events(c, 2, "strategy")[1].product.available =
                   Events(c, 1, "update")[1].product.available
            /\ db[orderProducts[c][1].id].available =
                   orderProducts[c][1].available - 2

\* ------------------------------------------------------------------ C4
SupportedTypes == {"NORMAL", "SEASONAL", "EXPIRABLE"}

\* The request has gone past the strategy selection of the product at idx.
PastSelection(c) == pc[c] \in {"update", "notify", "failed"}

\* C4: a NORMAL, SEASONAL or EXPIRABLE product is evaluated by the strategy
\* of its own type; a product of any other type makes the selection fail:
\* the request fails at that product, no strategy is evaluated for it, no
\* update is issued or applied and no notification is sent for it.
C4_SelectorTotalOnThreeTypes ==
    /\ \A k \in LogIndexes :
          LET e == log[k] IN
          e.op = "strategy" =>
              /\ e.product.type = "NORMAL" =>
                    e.result = NormalProductStrategy(e.product, e.currentDate)
              /\ e.product.type = "SEASONAL" =>
                    e.result = SeasonalProductStrategy(e.product, e.currentDate)
              /\ e.product.type = "EXPIRABLE" =>
                    e.result = ExpirableProductStrategy(e.product, e.currentDate)
              /\ e.product.type \in SupportedTypes
    /\ \A c \in Calls :
          (/\ PastSelection(c)
           /\ idx[c] <= Len(orderProducts[c])
           /\ orderProducts[c][idx[c]].type \notin SupportedTypes) =>
              /\ pc[c] = "failed"
              /\ Len(Events(c, idx[c], "unknownType")) = 1
              /\ Len(Events(c, idx[c], "strategy")) = 0
              /\ Len(Events(c, idx[c], "update")) = 0
              /\ Len(Events(c, idx[c], "notify")) = 0
              /\ pending[c] = NoPending
    /\ \A c \in Calls : \A i \in Positions :
          (i <= Len(orderProducts[c]) /\ orderProducts[c][i].type \notin SupportedTypes) =>
              /\ Len(Events(c, i, "strategy")) = 0
              /\ Len(Events(c, i, "update")) = 0
              /\ Len(Events(c, i, "notify")) = 0
              /\ idx[c] <= i

\* Witness: a request failed on a product of an unrecognized type that came
\* after a product that was processed.
C4_Witness ==
    /\ pc[1] = "failed"
    /\ idx[1] = 2
    /\ orderProducts[1][2].type = "FLASHSALE"
    /\ Evaluated(1, 1)
    /\ Len(Events(1, 2, "unknownType")) = 1

\* ------------------------------------------------------------------ C5
\* C5: an error at position k (unsupported type, rejected update, throwing
\* notification) leaves processOrder: the request is failed at k, the error
\* is the last entry of the request (no retry of k, nothing evaluated,
\* written or notified for a later position), and a failed request has such
\* an error at its position.
C5_FailurePropagates ==
    /\ \A k \in LogIndexes :
          log[k].op \in Throws =>
              LET c == log[k].call IN
              /\ pc[c] = "failed"
              /\ idx[c] = log[k].idx
              /\ \A j \in LogIndexes : log[j].call = c => j <= k /\ log[j].idx <= log[k].idx
              /\ Len(Events(c, log[k].idx, "strategy")) <= 1
              /\ pending[c] = NoPending
    /\ \A c \in Calls :
          pc[c] = "failed" =>
              \E k \in LogIndexes :
                  log[k].call = c /\ log[k].op \in Throws /\ log[k].idx = idx[c]

\* Witness: the update of the first of two products was rejected.
C5_Witness ==
    /\ pc[1] = "failed"
    /\ idx[1] = 1
    /\ Len(orderProducts[1]) = 2
    /\ Len(Events(1, 1, "updateRejected")) = 1

\* ------------------------------------------------------------------ C6
\* A SEASONAL product without both season dates, or an EXPIRABLE product
\* without an expiry date.
MissingRequiredDateFields(p) ==
    \/ p.type = "SEASONAL" /\ (p.seasonStartDate = Null \/ p.seasonEndDate = Null)
    \/ p.type = "EXPIRABLE" /\ p.expiryDate = Null

\* C6 (as claimed): a strategy never returns a result for a product whose
\* required date fields are missing; the request fails at that product with
\* no update and no notification.
C6_MissingDatesFatal ==
    /\ \A k \in LogIndexes :
          log[k].op = "strategy" => ~MissingRequiredDateFields(log[k].product)
    /\ \A c \in Calls : \A i \in Positions :
          (/\ i <= Len(orderProducts[c])
           /\ MissingRequiredDateFields(orderProducts[c][i])) =>
              /\ Len(Events(c, i, "update")) = 0
              /\ Len(Events(c, i, "notify")) = 0

\* ------------------------------------------- per-product views (C7..C10)
\* The product handed to processProductOrder at position i of request c, and
\* the instant its strategy read the clock.
ProductAt(c, i) == orderProducts[c][i]

EvaluatedAt(c, i) == Events(c, i, "strategy")[1].currentDate

\* The row the table holds for that product.
Persisted(c, i) == db[ProductAt(c, i).id]

NoWrite(c, i) == Len(Events(c, i, "update")) = 0

\* ------------------------------------------------------------------ C7
\* C7: after processProductOrder of a NORMAL product p: with p.available > 0
\* the persisted available is p.available - 1 and nothing was notified; with
\* p.available = 0 and p.leadTime > 0 the persisted available is 0, the
\* persisted leadTime is p.leadTime and exactly one delay notification
\* (p.leadTime, p.name) was sent; with both 0 nothing was written and
\* nothing notified.
C7_NormalProduct ==
    \A c \in Calls : \A i \in Positions :
        (JustCompleted(c, i) /\ ProductAt(c, i).type = "NORMAL") =>
            LET p == ProductAt(c, i) IN
            /\ p.available > 0 =>
                  /\ Persisted(c, i).available = p.available - 1
                  /\ Persisted(c, i).leadTime = p.leadTime
                  /\ Notifications(c, i) = <<>>
            /\ (p.available = 0 /\ p.leadTime > 0) =>
                  /\ Persisted(c, i).available = 0
                  /\ Persisted(c, i).leadTime = p.leadTime
                  /\ Notifications(c, i) = <<sendDelayNotification(p.leadTime, p.name)>>
            /\ (p.available = 0 /\ p.leadTime = 0) =>
                  /\ NoWrite(c, i)
                  /\ Notifications(c, i) = <<>>

\* Witness: an out-of-stock NORMAL product with a lead time was processed.
C7_Witness ==
    /\ JustCompleted(1, 1)
    /\ ProductAt(1, 1).type = "NORMAL"
    /\ ProductAt(1, 1).available = 0
    /\ ProductAt(1, 1).leadTime > 0
    /\ Len(Notifications(1, 1)) = 1

\* ------------------------------------------------------------------ C8
\* now < seasonStartDate, for a product that has its season dates.
BeforeSeason(c, i) ==
    /\ ProductAt(c, i).type = "SEASONAL"
    /\ ~MissingRequiredDateFields(ProductAt(c, i))
    /\ EvaluatedAt(c, i) < ProductAt(c, i).seasonStartDate

RestockDate(c, i) ==
    EvaluatedAt(c, i) + ProductAt(c, i).leadTime * millisecondsPerDay

\* C8 (as claimed): every SEASONAL product processed before its season
\* start, whatever its available (0 included) and leadTime, keeps its stock
\* and gets exactly one notification, the out-of-stock one with its name,
\* never a delay notification. Stated for the products whose season starts
\* before it ends.
C8_BeforeSeasonAlwaysOutOfStock ==
    \A c \in Calls : \A i \in Positions :
        (/\ JustCompleted(c, i)
         /\ BeforeSeason(c, i)
         /\ ProductAt(c, i).seasonStartDate < ProductAt(c, i).seasonEndDate) =>
            /\ Persisted(c, i).available = ProductAt(c, i).available
            /\ Notifications(c, i) = <<sendOutOfStockNotification(ProductAt(c, i).name)>>

\* ------------------------------------------------------------------ C9
InSeason(c, i) ==
    /\ ProductAt(c, i).seasonStartDate < EvaluatedAt(c, i)
    /\ EvaluatedAt(c, i) < ProductAt(c, i).seasonEndDate

\* C9: after processProductOrder of a SEASONAL product p with its season
\* dates and p.available > 0: strictly inside the window the persisted
\* available is p.available - 1 and nothing was notified; otherwise (the
\* boundary instants included) nothing was written, and when now >=
\* seasonStartDate nothing was notified either.
C9_SeasonWindowStrict ==
    \A c \in Calls : \A i \in Positions :
        (/\ JustCompleted(c, i)
         /\ ProductAt(c, i).type = "SEASONAL"
         /\ ~MissingRequiredDateFields(ProductAt(c, i))
         /\ ProductAt(c, i).available > 0) =>
            LET p == ProductAt(c, i) IN
            /\ InSeason(c, i) =>
                  /\ ~NoWrite(c, i)
                  /\ Persisted(c, i).available = p.available - 1
                  /\ Notifications(c, i) = <<>>
            /\ ~InSeason(c, i) => NoWrite(c, i)
            /\ (~InSeason(c, i) /\ EvaluatedAt(c, i) >= p.seasonStartDate) =>
                  Notifications(c, i) = <<>>

\* Witness: an in-stock product was processed at the instant its season ends.
C9_Witness ==
    /\ JustCompleted(1, 1)
    /\ ProductAt(1, 1).type = "SEASONAL"
    /\ ProductAt(1, 1).available > 0
    /\ ProductAt(1, 1).seasonStartDate # Null
    /\ ProductAt(1, 1).seasonStartDate < ProductAt(1, 1).seasonEndDate
    /\ EvaluatedAt(1, 1) = ProductAt(1, 1).seasonEndDate

\* ----------------------------------------------------------------- C10
\* C10: after processProductOrder of a SEASONAL product p with its season
\* dates, p.available = 0 and now >= seasonStartDate: when now + leadTime
\* days > seasonEndDate the persisted available is 0 and exactly one
\* out-of-stock notification (p.name) was sent; when now + leadTime days <=
\* seasonEndDate exactly one delay notification (p.leadTime, p.name) was
\* sent and the persisted leadTime is p.leadTime.
C10_SeasonalOutOfStock ==
    \A c \in Calls : \A i \in Positions :
        (/\ JustCompleted(c, i)
         /\ ProductAt(c, i).type = "SEASONAL"
         /\ ~MissingRequiredDateFields(ProductAt(c, i))
         /\ ProductAt(c, i).available = 0
         /\ EvaluatedAt(c, i) >= ProductAt(c, i).seasonStartDate) =>
            LET p == ProductAt(c, i) IN
            /\ RestockDate(c, i) > p.seasonEndDate =>
                  /\ Persisted(c, i).available = 0
                  /\ Notifications(c, i) = <<sendOutOfStockNotification(p.name)>>
            /\ RestockDate(c, i) <= p.seasonEndDate =>
                  /\ Persisted(c, i).available = 0
                  /\ Persisted(c, i).leadTime = p.leadTime
                  /\ Notifications(c, i) = <<sendDelayNotification(p.leadTime, p.name)>>

\* Witness: the restock of an out-of-stock product lands exactly on the
\* season end and a delay notification was sent.
C10_Witness ==
    /\ JustCompleted(1, 1)
    /\ ProductAt(1, 1).type = "SEASONAL"
    /\ ProductAt(1, 1).available = 0
    /\ ProductAt(1, 1).leadTime > 0
    /\ ProductAt(1, 1).seasonStartDate # Null
    /\ EvaluatedAt(1, 1) >= ProductAt(1, 1).seasonStartDate
    /\ RestockDate(1, 1) = ProductAt(1, 1).seasonEndDate
    /\ Notifications(1, 1) =
           <<sendDelayNotification(ProductAt(1, 1).leadTime, ProductAt(1, 1).name)>>

\* ----------------------------------------------------------------- C11
\* C11: once processProductOrder has completed for an EXPIRABLE product that
\* has an expiry date: if the product handed in had available > 0 and
\* expiryDate > now, the persisted available is that value minus 1 and no
\* notification was sent; otherwise (available = 0, or expiryDate <= now,
\* expiryDate = now included) the persisted available is 0 and exactly one
\* expiration notification was sent, carrying the product's name and
\* expiryDate.
C11_ExpirableProduct ==
    \A c \in Calls : \A i \in Positions :
        (/\ JustCompleted(c, i)
         /\ ProductAt(c, i).type = "EXPIRABLE"
         /\ ~MissingRequiredDateFields(ProductAt(c, i))) =>
            LET p == ProductAt(c, i) IN
            IF p.available > 0 /\ p.expiryDate > EvaluatedAt(c, i)
            THEN /\ Persisted(c, i).available = p.available - 1
                 /\ Notifications(c, i) = <<>>
            ELSE /\ Persisted(c, i).available = 0
                 /\ Notifications(c, i) =
                        <<sendExpirationNotification(p.name, p.expiryDate)>>

\* Witness: a product in stock was processed at the very instant of its
\* expiry date; its stock was forced to 0 and the expiration was notified.
C11_Witness ==
    /\ JustCompleted(1, 1)
    /\ ProductAt(1, 1).type = "EXPIRABLE"
    /\ ProductAt(1, 1).available > 0
    /\ ProductAt(1, 1).expiryDate = EvaluatedAt(1, 1)
    /\ Persisted(1, 1).available = 0
    /\ Len(Notifications(1, 1)) = 1

\* ----------------------------------------------------------------- C12
\* The two rows agree on every field but available.
SameButAvailable(before, after) ==
    [after EXCEPT !.available = before.available] = before

\* C12 (as claimed): whatever the table holds, a stock update applied by
\* processProductOrder changes no field other than available of the row of
\* the product's id, and changes no other row.
C12_PartialUpdate ==
    [][(/\ Len(log') = Len(log) + 1
        /\ log'[Len(log')].op = "update") =>
           \A i \in ProductIds :
               /\ SameButAvailable(db[i], db'[i])
               /\ db[i].id # log'[Len(log')].product.id => db'[i] = db[i]]_vars

\* ----------------------------------------------------------------- C13
\* C13: the available of every row of the table is a non-negative integer in
\* every reachable state; every row a call wrote had a non-negative
\* available, and a strategy returned the stock of its product minus 1 only
\* for a product whose available was above 0.
C13_AvailableNonNegative ==
    /\ \A i \in ProductIds : db[i].available \in Nat
    /\ \A k \in LogIndexes :
          /\ log[k].op = "update" => log[k].product.available \in Nat
          /\ (/\ log[k].op = "strategy"
              /\ log[k].result.updatedProduct # NoProduct
              /\ log[k].result.updatedProduct.available =
                     log[k].product.available - 1) =>
                 log[k].product.available > 0

\* Witness: the last unit of a product was ordered twice in one order; both
\* calls completed and the stock stopped at 0.
C13_Witness ==
    /\ JustCompleted(1, 2)
    /\ ProductAt(1, 1) = ProductAt(1, 2)
    /\ ProductAt(1, 1).available = 1
    /\ Len(Events(1, 1, "update")) = 1
    /\ Len(Events(1, 2, "update")) = 1
    /\ Persisted(1, 1).available = 0

\* ----------------------------------------------------------------- C14
\* The runs of processProductOrder that have returned.
CompletedRuns == {c \in Calls : pc[c] = "done" /\ Len(orderProducts[c]) = 1}

\* What the outcome for an out-of-stock product depends on besides its row:
\* for a SEASONAL product, whether the restock lands after the season end;
\* nothing for the other types.
RestockAfterSeason(c) ==
    /\ ProductAt(c, 1).type = "SEASONAL"
    /\ EvaluatedAt(c, 1) + (ProductAt(c, 1).leadTime * millisecondsPerDay)
          > ToNumber(ProductAt(c, 1).seasonEndDate)

\* The completed runs on the out-of-stock product made under the same
\* lead-time / season / expiry condition as run c.
SameCondition(c) ==
    {d \in CompletedRuns : /\ ProductAt(d, 1).available = 0
                           /\ RestockAfterSeason(d) = RestockAfterSeason(c)}

\* The notifications the runs in S sent, in order.
NotificationsOf(S) ==
    SelectSeq(log, LAMBDA e : e.op = "notify" /\ e.call \in S)

\* C14: runs of processProductOrder on a product with available = 0 under
\* the same lead-time / season / expiry condition all have the same outcome:
\* each run is handed the same row, the stock stays at 0, each run sends the
\* same notifications as the others, and k such runs that notify have sent
\* that notification k times.
C14_RerunRepeats ==
    \A c \in CompletedRuns :
        ProductAt(c, 1).available = 0 =>
            /\ db[1].available = 0
            /\ \A d \in SameCondition(c) :
                  /\ ProductAt(d, 1) = ProductAt(c, 1)
                  /\ ResultOf(d, 1) = ResultOf(c, 1)
                  /\ Notifications(d, 1) = Notifications(c, 1)
            /\ Len(NotificationsOf(SameCondition(c))) =
                  Cardinality(SameCondition(c)) * Len(Notifications(c, 1))
            /\ \A k \in 1..Len(NotificationsOf(SameCondition(c))) :
                  NotificationsOf(SameCondition(c))[k].action =
                      ResultOf(c, 1).notificationAction

\* Witness: every run was made on the out-of-stock product under the same
\* condition, and the log holds one notification per run.
C14_Witness ==
    /\ CompletedRuns = Calls
    /\ ProductAt(1, 1).available = 0
    /\ SameCondition(1) = Calls
    /\ Len(NotificationsOf(Calls)) = NumCalls
    /\ NumCalls > 1

\* ----------------------------------------------------------------- C15
\* The product rows the handlers loaded, in order.
Loads == SelectSeq(log, LAMBDA e : e.op = "load")

\* The stock of product 1 before any request: what the first handler loaded.
InitialAvailable == Loads[1].product.available

\* The updates applied to the row of product 1, in order.
Writes == SelectSeq(log, LAMBDA e : e.op = "update" /\ e.product.id = 1)

\* The calls whose strategy took its decrement branch.
DecrementCalls ==
    {c \in Calls : /\ Evaluated(c, 1)
                   /\ ResultOf(c, 1).notificationAction = NoAction
                   /\ ProductAt(c, 1).available > 0}

AllComplete == \A c \in Calls : pc[c] = "done"

\* No two requests overlap: the log entries of each request are contiguous.
Serialized ==
    \A j \in LogIndexes : \A m \in LogIndexes :
        (j < m /\ log[j].call = log[m].call) =>
            \A k \in j..m : log[k].call = log[j].call

NotificationKinds == {"delay", "outOfStock", "expiration"}

\* What holds of the notifications of every call, whichever branch it took:
\* at most one was sent, of one of the three kinds; it is the deferred action
\* of the result the strategy returned, sent by the processor after the
\* strategy returned and not before the processor reached the invocation.
DeferredNotification(c, i) ==
    /\ Len(Notifications(c, i)) <= 1
    /\ \A k \in 1..Len(Notifications(c, i)) :
          /\ Notifications(c, i)[k].kind \in NotificationKinds
          /\ Evaluated(c, i)
          /\ Notifications(c, i)[k] = ResultOf(c, i).notificationAction
    /\ \A j \in LogIndexes : \A k \in LogIndexes :
          (/\ log[j].call = c /\ log[j].idx = i /\ log[j].op = "notify"
           /\ log[k].call = c /\ log[k].idx = i /\ log[k].op = "strategy") =>
              k < j
    /\ (idx[c] = i /\ pc[c] \in {"strategy", "update", "notify"}) =>
          Notifications(c, i) = <<>>

\* The call for position i of request c took `available` down by 1 in the
\* table: it wrote the stock of the product handed in minus 1.
DecrementedByOne(c, i) ==
    /\ Len(Events(c, i, "update")) > 0
    /\ Events(c, i, "update")[1].product.available = ProductAt(c, i).available - 1

\* The strategy of the call took its decrement branch: the product is in
\* stock and, for a SEASONAL product, inside its season, for an EXPIRABLE
\* product, not expired.
TookDecrementBranch(c, i) ==
    LET p == ProductAt(c, i)
        currentDate == EvaluatedAt(c, i)
    IN  /\ Evaluated(c, i)
        /\ p.available > 0
        /\ p.type = "SEASONAL" =>
              /\ currentDate > ToNumber(p.seasonStartDate)
              /\ currentDate < ToNumber(p.seasonEndDate)
        /\ p.type = "EXPIRABLE" => ToNumber(p.expiryDate) > currentDate

\* C16 (as claimed): each processProductOrder call sends at most one
\* notification, of one of the three kinds, sent by the processor through
\* the deferred action and never by the strategy while it computes; and a
\* call that takes available down by 1 sends no notification.
C16_DecrementNeverNotifies ==
    \A c \in Calls : \A i \in Positions :
        i <= Len(orderProducts[c]) =>
            /\ DeferredNotification(c, i)
            /\ DecrementedByOne(c, i) => Notifications(c, i) = <<>>

\* C16 (amended): each processProductOrder call sends at most one
\* notification, of one of the three kinds, sent by the processor through
\* the deferred action and never by the strategy while it computes; a call
\* whose strategy takes its decrement branch sends no notification, and the
\* only call that takes available down by 1 and notifies is that of an
\* EXPIRABLE product with available = 1 that is expired (expiryDate <= now,
\* or no expiryDate, which the comparison takes as expired): its stock is
\* forced to 0 and its expiration is notified.
C16_DecrementBranchNeverNotifies ==
    \A c \in Calls : \A i \in Positions :
        i <= Len(orderProducts[c]) =>
            /\ DeferredNotification(c, i)
            /\ TookDecrementBranch(c, i) =>
                  /\ ResultOf(c, i).notificationAction = NoAction
                  /\ Notifications(c, i) = <<>>
            /\ (DecrementedByOne(c, i) /\ Notifications(c, i) # <<>>) =>
                  /\ ProductAt(c, i).type = "EXPIRABLE"
                  /\ ProductAt(c, i).available = 1
                  /\ ToNumber(ProductAt(c, i).expiryDate) <= EvaluatedAt(c, i)
                  /\ Persisted(c, i).available = 0
                  /\ Notifications(c, i) =
                         <<sendExpirationNotification(ProductAt(c, i).name,
                                                      ProductAt(c, i).expiryDate)>>

\* Witness: the last unit of an expired product: the call took the stock from
\* 1 to 0 and sent the expiration notification.
C16_Witness ==
    /\ JustCompleted(1, 1)
    /\ ProductAt(1, 1).type = "EXPIRABLE"
    /\ ProductAt(1, 1).available = 1
    /\ ProductAt(1, 1).expiryDate # Null
    /\ ProductAt(1, 1).expiryDate <= EvaluatedAt(1, 1)
    /\ DecrementedByOne(1, 1)
    /\ Len(Notifications(1, 1)) = 1

====
